---- MODULE Spec2Model ----
(***************************************************************************)
(* Project Hub: the configuration loader (js/config.js), the GitHub API    *)
(* module with the reconciliation of auto-discovered and manual projects   *)
(* (js/api.js) and the start-up sequence of the application (js/app.js).   *)
(***************************************************************************)
EXTENDS Integers, Sequences, FiniteSets, TLC

(***************************************************************************)
(* JavaScript values.  Fields of a project entry are strings; the two      *)
(* sentinels stand for a key that is missing (undefined) and for null.     *)
(* The top-level keys of the YAML document are typed values, so that a     *)
(* key holding a number where a list or a string is expected is a value    *)
(* of the model too.                                                       *)
(***************************************************************************)
Undefined == "<undefined>"
Null == "<null>"

\* JavaScript truthiness of a string-or-missing field.
Truthy(v) == v \notin {Undefined, Null, ""}

\* a || b on string-or-missing fields.
OrElse(a, b) == IF Truthy(a) THEN a ELSE b

Absent == [t |-> "undefined", s |-> "", l |-> <<>>]
Str(x) == [t |-> "string", s |-> x, l |-> <<>>]
NumberValue == [t |-> "number", s |-> "5", l |-> <<>>]
List(q) == [t |-> "array", s |-> "", l |-> q]

\* JavaScript truthiness of a typed value: arrays (also empty ones) and
\* non-zero numbers are truthy, the empty string and undefined are not.
TruthyValue(v) ==
    \/ v.t = "array"
    \/ v.t = "number"
    \/ v.t = "string" /\ v.s # ""

\* a || b on typed values.
OrValue(a, b) == IF TruthyValue(a) THEN a ELSE b

\* `${v}` in a template literal.
ToText(v) == v.s

(***************************************************************************)
(* Bounds of the inputs.                                                   *)
(***************************************************************************)
\* Longest projects list of a YAML document.
MaxEntries == 2

FallbackUser == "darrenmcewan"

(***************************************************************************)
(* config.js                                                               *)
(***************************************************************************)
VARIABLES
    config,      \* Config's memoized `config`
    yaml,        \* the document jsyaml.load returned to load(), if any
    loadError,   \* the error load caught and warned about, "" if none
    pc,          \* position of App.init
    reposReq,    \* the repository-list request: "none", "pending", "ok", "fail"
    profileReq,  \* the profile request: "none", "pending", "ok", "fail"
    repos,       \* body of the repository-list response
    reqUser,     \* the username both requests were issued for
    grid,        \* the project tiles in the grid, in order
    header,      \* profile shown in the header
    outcome,     \* what init rendered: "none", "primary", "fallback", "failed"
    pc2,         \* position of a second caller of Config.load
    fetches,     \* how many times fetch('projects.yaml') has been called
    writes,      \* how many times `config` has been assigned
    returned     \* what each call of load resolved with, NoConfig until it has

vars ==
    <<config, yaml, loadError, pc, reposReq, profileReq, repos, reqUser, grid, header,
      outcome, pc2, fetches, writes, returned>>

\* `let config = null`
NoConfig ==
    [isNull |-> TRUE, username |-> Absent, exclude |-> Absent, order |-> Absent,
     projects |-> <<>>]

\* The configuration load() falls back to in its catch block.
DefaultConfig ==
    [isNull |-> FALSE, username |-> Str(FallbackUser), exclude |-> List(<<>>),
     order |-> List(<<>>), projects |-> <<>>]

normalizeProject(project) ==
    [repo |-> OrElse(project.repo, Null),
     name |-> OrElse(project.name, OrElse(project.repo, "Untitled")),
     description |-> OrElse(project.description, Null),
     url |-> OrElse(project.url, Null),
     repoUrl |-> IF project.repoUrl # Undefined THEN project.repoUrl ELSE Null,
     thumbnail |-> OrElse(project.thumbnail, Null),
     order |-> OrElse(project.order, Null)]

\* (config.projects || []).map(normalizeProject) throws a TypeError when
\* projects is truthy and has no map method.
NormalizeThrows(doc) == doc.projects.t = "number"

\* The object load() builds from the parsed document (lines 29-34).
Normalized(doc) ==
    [isNull |-> FALSE,
     username |-> OrValue(doc.username, Str("")),
     exclude |-> OrValue(doc.exclude, List(<<>>)),
     order |-> OrValue(doc.order, List(<<>>)),
     projects |-> [i \in 1..Len(doc.projects.l) |-> normalizeProject(doc.projects.l[i])]]

getUsername == OrValue(config.username, Str(FallbackUser))
getExcluded == OrValue(config.exclude, List(<<>>))
getOrder == OrValue(config.order, List(<<>>))
getProjects == config.projects

\* projects.find(p => p.repo === repoName) || null, as the set of indexes
\* of the matching entries; the override is the first of them.
OverrideIndexes(repoName) ==
    {i \in 1..Len(getProjects) : getProjects[i].repo = repoName}
hasProjectOverride(repoName) == OverrideIndexes(repoName) # {}
getProjectOverride(repoName) ==
    getProjects[CHOOSE i \in OverrideIndexes(repoName) :
                    \A j \in OverrideIndexes(repoName) : i <= j]

\* Variant of getManualProjects that forgets the url filter.
getManualProjectsUnfiltered == getProjects

getManualProjects == SelectSeq(getProjects, LAMBDA p : Truthy(p.url))

\* Variant of reposWithCustomUrlsFilter that looks at repoUrl instead of url.
reposWithCustomUrlsFilterOnRepoUrl(p) == Truthy(p.repoUrl) /\ Truthy(p.repo)

reposWithCustomUrlsFilter(p) == Truthy(p.url) /\ Truthy(p.repo)
getReposWithCustomUrls ==
    LET kept == SelectSeq(getProjects, reposWithCustomUrlsFilter)
    IN  [i \in 1..Len(kept) |-> kept[i].repo]

(***************************************************************************)
(* api.js                                                                  *)
(***************************************************************************)
\* Variant of filterPagesEnabled that keeps every repository.
filterPagesEnabledAll(rs) == rs

filterPagesEnabled(rs) == SelectSeq(rs, LAMBDA repo : repo.has_pages)

PagesUrl(username, name) ==
    "https://" \o ToText(username) \o ".github.io/" \o name \o "/"
GithubUrl(username, name) ==
    "https://github.com/" \o ToText(username) \o "/" \o name

transformRepo(repo, username) ==
    [name |-> repo.name,
     description |-> OrElse(repo.description, ""),
     url |-> PagesUrl(username, repo.name),
     repoUrl |-> repo.html_url,
     thumbnail |-> Null,
     isAutoDiscovered |-> TRUE]

\* array.includes(x) / array.indexOf(x), indexes from 0, -1 when missing.
Includes(q, x) == \E i \in 1..Len(q) : q[i] = x
IndexOf(q, x) ==
    IF Includes(q, x)
    THEN (CHOOSE i \in 1..Len(q) : q[i] = x /\ \A j \in 1..(i - 1) : q[j] # x) - 1
    ELSE -1

\* String.prototype.localeCompare on the names of the model: letters are
\* compared first, ignoring case, and a lower-case letter sorts before the
\* same letter in upper case.
Collation == <<"a", "b", "B", "c", "Untitled">>

\* Variant of localeCompare that compares UTF-16 code units, as < does.
CodeUnits == <<"B", "Untitled", "a", "b", "c">>
localeCompareCodeUnits(x, y) ==
    LET d == IndexOf(CodeUnits, x) - IndexOf(CodeUnits, y)
    IN  IF d < 0 THEN -1 ELSE IF d > 0 THEN 1 ELSE 0

localeCompare(x, y) ==
    LET d == IndexOf(Collation, x) - IndexOf(Collation, y)
    IN  IF d < 0 THEN -1 ELSE IF d > 0 THEN 1 ELSE 0

\* The comparator of lines 115-129 and 185-193.
orderCompare(order, a, b) ==
    LET aIndex == IndexOf(order, a.name)
        bIndex == IndexOf(order, b.name)
    IN  IF aIndex # -1 /\ bIndex # -1 THEN aIndex - bIndex
        ELSE IF aIndex # -1 THEN -1
        ELSE IF bIndex # -1 THEN 1
        ELSE localeCompare(a.name, b.name)

\* The comparator of line 132.
nameCompare(order, a, b) == localeCompare(a.name, b.name)

compare(byOrder, order, a, b) ==
    IF byOrder THEN orderCompare(order, a, b) ELSE nameCompare(order, a, b)

\* Array.prototype.sort: a stable sort by the comparator.
RECURSIVE insert(_, _, _, _)
insert(byOrder, order, x, sorted) ==
    IF sorted = <<>> THEN <<x>>
    ELSE LET last == sorted[Len(sorted)]
         IN  IF compare(byOrder, order, last, x) > 0
             THEN Append(insert(byOrder, order, x, SubSeq(sorted, 1, Len(sorted) - 1)), last)
             ELSE Append(sorted, x)

RECURSIVE sort(_, _, _)
sort(byOrder, order, ps) ==
    IF ps = <<>> THEN <<>>
    ELSE insert(byOrder, order, ps[Len(ps)], sort(byOrder, order, SubSeq(ps, 1, Len(ps) - 1)))

\* Variant of mergeFilter that forgets the repositories with custom URLs.
mergeFilterExcludedOnly(rs) ==
    SelectSeq(rs, LAMBDA repo : ~Includes(getExcluded.l, repo.name))

\* Lines 81-82: repositories that are neither excluded nor redirected.
mergeFilter(rs) ==
    SelectSeq(rs, LAMBDA repo :
        /\ ~Includes(getExcluded.l, repo.name)
        /\ ~Includes(getReposWithCustomUrls, repo.name))

\* Variant of mergeMap that lets the override replace repoUrl too.
mergeMapOverridesRepoUrl(repo, username) ==
    LET project == transformRepo(repo, username)
        override == getProjectOverride(repo.name)
    IN  IF hasProjectOverride(repo.name)
        THEN [project EXCEPT
                 !.name = OrElse(override.name, project.name),
                 !.description = OrElse(override.description, project.description),
                 !.url = OrElse(override.url, project.url),
                 !.repoUrl = OrElse(override.repoUrl, project.repoUrl),
                 !.thumbnail = OrElse(override.thumbnail, project.thumbnail)]
        ELSE project

\* Lines 83-99: transform a repository and apply its override.
mergeMap(repo, username) ==
    LET project == transformRepo(repo, username)
        override == getProjectOverride(repo.name)
    IN  IF hasProjectOverride(repo.name)
        THEN [project EXCEPT
                 !.name = OrElse(override.name, project.name),
                 !.description = OrElse(override.description, project.description),
                 !.url = OrElse(override.url, project.url),
                 !.thumbnail = OrElse(override.thumbnail, project.thumbnail)]
        ELSE project

\* Lines 102-109.
mergeManual(p, username) ==
    [name |-> OrElse(p.name, p.repo),
     description |-> OrElse(p.description, ""),
     url |-> p.url,
     repoUrl |-> IF p.repoUrl # Undefined THEN p.repoUrl
                 ELSE IF Truthy(p.repo) THEN GithubUrl(username, p.repo) ELSE Null,
     thumbnail |-> p.thumbnail,
     isAutoDiscovered |-> FALSE]

\* excluded.includes is called for each repository; it is no function when
\* exclude is not an array.
mergeThrows(rs) == Len(rs) > 0 /\ getExcluded.t # "array"

mergeWithConfig(rs, username) ==
    LET kept == mergeFilter(rs)
        projects == [i \in 1..Len(kept) |-> mergeMap(kept[i], username)]
        manual == getManualProjects
        manualProjects == [i \in 1..Len(manual) |-> mergeManual(manual[i], username)]
        order == getOrder
    IN  IF order.t = "array" /\ Len(order.l) > 0
        THEN sort(TRUE, order.l, projects \o manualProjects)
        ELSE sort(FALSE, <<>>, projects \o manualProjects)

\* Lines 157-164.
apiProfile(profile) ==
    [username |-> profile.login, avatarUrl |-> profile.avatar_url,
     profileUrl |-> profile.html_url]

\* Lines 174-181.
manualOnly(p, username) ==
    [name |-> OrElse(p.name, OrElse(p.repo, "Untitled")),
     description |-> OrElse(p.description, ""),
     url |-> OrElse(p.url, IF Truthy(p.repo) THEN PagesUrl(username, p.repo) ELSE "#"),
     repoUrl |-> IF p.repoUrl # Null THEN p.repoUrl
                 ELSE IF Truthy(p.repo) THEN GithubUrl(username, p.repo) ELSE Null,
     thumbnail |-> p.thumbnail,
     isAutoDiscovered |-> FALSE]

\* order.indexOf is called by the comparator, which runs as soon as there
\* are two projects to compare; it is no function when order is not an array.
manualOnlyThrows == Len(getProjects) >= 2 /\ getOrder.t # "array"

\* Variant of getManualProjectsOnly that starts from the entries with a url,
\* as mergeWithConfig does.
getManualProjectsOnlyWithUrl ==
    LET username == getUsername
        entries == getManualProjects
        manualProjects == [i \in 1..Len(entries) |-> manualOnly(entries[i], username)]
    IN  [projects |-> sort(TRUE, getOrder.l, manualProjects),
         profile |-> [username |-> ToText(username),
                      avatarUrl |-> "https://github.com/" \o ToText(username) \o ".png",
                      profileUrl |-> "https://github.com/" \o ToText(username)]]

getManualProjectsOnly ==
    LET username == getUsername
        entries == getProjects
        manualProjects == [i \in 1..Len(entries) |-> manualOnly(entries[i], username)]
    IN  [projects |-> sort(TRUE, getOrder.l, manualProjects),
         profile |-> [username |-> ToText(username),
                      avatarUrl |-> "https://github.com/" \o ToText(username) \o ".png",
                      profileUrl |-> "https://github.com/" \o ToText(username)]]

(***************************************************************************)
(* The inputs: projects.yaml as parsed by jsyaml, and the API responses.   *)
(***************************************************************************)
ExternalUrl == "https://example.com"
SourceUrl == "https://example.com/src"

NoEntry ==
    [repo |-> Undefined, name |-> Undefined, description |-> Undefined,
     url |-> Undefined, repoUrl |-> Undefined, thumbnail |-> Undefined,
     order |-> Undefined]

\* Entries that declare only repo, url and repoUrl, in every combination.
BaseEntries ==
    {[NoEntry EXCEPT !.repo = r, !.url = u, !.repoUrl = ru] :
        r \in {Undefined, "a"}, u \in {Undefined, ExternalUrl}, ru \in {Undefined, Null}}

\* Entries that override fields of repository a.
OverrideEntries ==
    {[NoEntry EXCEPT !.repo = "a", !.description = "custom"],
     [NoEntry EXCEPT !.repo = "a", !.name = "B", !.thumbnail = "images/a.png",
                     !.repoUrl = SourceUrl]}

\* An external project with a display name.
ExternalEntries ==
    {[NoEntry EXCEPT !.name = "B", !.url = ExternalUrl, !.description = "custom"]}

RawEntries == BaseEntries \cup OverrideEntries \cup ExternalEntries

ProjectLists == UNION {[1..n -> RawEntries] : n \in 0..MaxEntries}

PlainKeys == [username |-> Str("alice"), exclude |-> Absent, order |-> Absent]

\* The top-level keys: well-typed ones in every combination, and the plain
\* document with one key missing or holding a number.
TopLevelKeys ==
    {k \in [username : {Str("alice"), Absent, NumberValue},
            exclude : {Absent, List(<<"a">>), NumberValue},
            order : {Absent, List(<<"b", "a">>), NumberValue}] :
        \/ k.username = Str("alice") /\ k.exclude.t # "number" /\ k.order.t # "number"
        \/ Cardinality({f \in {"username", "exclude", "order"} : k[f] # PlainKeys[f]}) = 1}

Docs ==
    {[username |-> k.username, exclude |-> k.exclude, order |-> k.order,
      projects |-> List(ps)] : k \in TopLevelKeys, ps \in ProjectLists}
    \cup {[username |-> PlainKeys.username, exclude |-> Absent, order |-> Absent,
           projects |-> NumberValue]}

\* What GET /users/<username>/repos returns: repositories a, b and c, each
\* present or not; a may have GitHub Pages switched off.
RepoRecord(username, name, description, pages) ==
    [name |-> name, description |-> description,
     html_url |-> GithubUrl(username, name), has_pages |-> pages]

RepoChoices ==
    [a : {"absent", "pages", "nopages"}, b : {"absent", "pages"}, c : {"absent", "pages"}]

RepoList(username, ch) ==
    (IF ch.a = "absent" THEN <<>>
     ELSE <<RepoRecord(username, "a", "orig", ch.a = "pages")>>)
    \o (IF ch.b = "absent" THEN <<>> ELSE <<RepoRecord(username, "b", Null, TRUE)>>)
    \o (IF ch.c = "absent" THEN <<>> ELSE <<RepoRecord(username, "c", Null, TRUE)>>)

RepoLists(username) == {RepoList(username, ch) : ch \in RepoChoices}

\* What GET /users/<username> returns.
ProfileBody(username) ==
    [login |-> ToText(username),
     avatar_url |-> "https://avatars.githubusercontent.com/" \o ToText(username),
     html_url |-> "https://github.com/" \o ToText(username)]

NoProfile == [username |-> "", avatarUrl |-> "", profileUrl |-> ""]

(***************************************************************************)
(* app.js: init, with Config.load and GitHubAPI.getProjects inlined at     *)
(* their awaits.                                                           *)
(***************************************************************************)
Init ==
    /\ config = NoConfig
    /\ yaml = <<>>
    /\ loadError = ""
    /\ pc = "start"
    /\ reposReq = "none"
    /\ profileReq = "none"
    /\ repos = <<>>
    /\ reqUser = Absent
    /\ grid = <<>>
    /\ header = NoProfile
    /\ outcome = "none"
    /\ pc2 = "idle"
    /\ fetches = 0
    /\ writes = 0
    /\ returned = [init |-> NoConfig, second |-> NoConfig]

\* What projects.yaml parses to: one file, the same for every fetch of it.
Served == IF yaml = <<>> THEN Docs ELSE {yaml[1]}

\* init calls Config.load, which finds config null and fetches projects.yaml.
LoadStart ==
    /\ pc = "start"
    /\ config.isNull
    /\ pc' = "cfgFetch"
    /\ fetches' = fetches + 1
    /\ UNCHANGED <<config, yaml, loadError, reposReq, profileReq, repos, reqUser, grid, header, outcome>>
    /\ UNCHANGED <<pc2, writes, returned>>

\* The catch block of load.
LoadCatch(error) ==
    /\ config' = DefaultConfig
    /\ loadError' = error
    /\ pc' = "loaded"
    /\ writes' = writes + 1
    /\ returned' = [returned EXCEPT !.init = DefaultConfig]
    /\ UNCHANGED <<yaml, reposReq, profileReq, repos, reqUser, grid, header, outcome>>
    /\ UNCHANGED <<pc2, fetches>>

\* fetch('projects.yaml') rejects (network error).
LoadFetchRejects ==
    /\ pc = "cfgFetch"
    /\ LoadCatch("Failed to fetch")

\* The response is not ok: load throws 'Failed to load config'.
LoadFetchNotOk ==
    /\ pc = "cfgFetch"
    /\ LoadCatch("Failed to load config: 404")

LoadFetchOk ==
    /\ pc = "cfgFetch"
    /\ pc' = "cfgText"
    /\ UNCHANGED <<config, yaml, loadError, reposReq, profileReq, repos, reqUser, grid, header, outcome>>
    /\ UNCHANGED <<pc2, fetches, writes, returned>>

\* response.text() rejects or jsyaml.load throws on the text.
LoadParseError ==
    /\ pc = "cfgText"
    /\ LoadCatch("YAMLException")

\* jsyaml.load returns doc; load normalizes it, or lands in its catch block
\* when the normalization throws.  Either way config is assigned twice: the
\* raw document first, then the normalized configuration or the defaults.
LoadParsed ==
    /\ pc = "cfgText"
    /\ \E doc \in Served :
        /\ yaml' = <<doc>>
        /\ config' = IF NormalizeThrows(doc) THEN DefaultConfig ELSE Normalized(doc)
        /\ loadError' = IF NormalizeThrows(doc) THEN "TypeError" ELSE ""
    /\ pc' = "loaded"
    /\ writes' = writes + 2
    /\ returned' = [returned EXCEPT !.init = config']
    /\ UNCHANGED <<reposReq, profileReq, repos, reqUser, grid, header, outcome>>
    /\ UNCHANGED <<pc2, fetches>>

\* Variant of GetProjectsStart for an init that does not await Config.load:
\* the requests may go out while the configuration is still being fetched.
GetProjectsStartWithoutAwait ==
    /\ pc \in {"cfgFetch", "loaded"}
    /\ reqUser' = getUsername
    /\ reposReq' = "pending"
    /\ profileReq' = "pending"
    /\ pc' = "fetching"
    /\ UNCHANGED <<config, yaml, loadError, repos, grid, header, outcome>>
    /\ UNCHANGED <<pc2, fetches, writes, returned>>

\* getProjects reads the username and starts both requests.
GetProjectsStart ==
    /\ pc = "loaded"
    /\ reqUser' = getUsername
    /\ reposReq' = "pending"
    /\ profileReq' = "pending"
    /\ pc' = "fetching"
    /\ UNCHANGED <<config, yaml, loadError, repos, grid, header, outcome>>
    /\ UNCHANGED <<pc2, fetches, writes, returned>>

ReposOk ==
    /\ reposReq = "pending"
    /\ \E rs \in RepoLists(reqUser) : repos' = rs
    /\ reposReq' = "ok"
    /\ UNCHANGED <<config, yaml, loadError, pc, profileReq, reqUser, grid, header, outcome>>
    /\ UNCHANGED <<pc2, fetches, writes, returned>>

\* fetchUserRepos throws: network error or a status that is not ok.
ReposFail ==
    /\ reposReq = "pending"
    /\ reposReq' = "fail"
    /\ UNCHANGED <<config, yaml, loadError, pc, profileReq, repos, reqUser, grid, header, outcome>>
    /\ UNCHANGED <<pc2, fetches, writes, returned>>

ProfileOk ==
    /\ profileReq = "pending"
    /\ profileReq' = "ok"
    /\ UNCHANGED <<config, yaml, loadError, pc, reposReq, repos, reqUser, grid, header, outcome>>
    /\ UNCHANGED <<pc2, fetches, writes, returned>>

ProfileFail ==
    /\ profileReq = "pending"
    /\ profileReq' = "fail"
    /\ UNCHANGED <<config, yaml, loadError, pc, reposReq, repos, reqUser, grid, header, outcome>>
    /\ UNCHANGED <<pc2, fetches, writes, returned>>

\* The catch block of init: the manual-only fallback, and the terminal
\* message when that throws too.
InitCatch ==
    /\ IF manualOnlyThrows
       THEN /\ grid' = <<>>
            /\ outcome' = "failed"
            /\ UNCHANGED header
       ELSE /\ grid' = getManualProjectsOnly.projects
            /\ header' = getManualProjectsOnly.profile
            /\ outcome' = "fallback"
    /\ pc' = "done"
    /\ UNCHANGED <<config, yaml, loadError, reposReq, profileReq, repos, reqUser>>
    /\ UNCHANGED <<pc2, fetches, writes, returned>>

\* Promise.all resolves; the projects are merged and rendered.
GetProjectsResolves ==
    /\ pc = "fetching"
    /\ reposReq = "ok" /\ profileReq = "ok"
    /\ ~mergeThrows(filterPagesEnabled(repos))
    /\ grid' = mergeWithConfig(filterPagesEnabled(repos), reqUser)
    /\ header' = apiProfile(ProfileBody(reqUser))
    /\ outcome' = "primary"
    /\ pc' = "done"
    /\ UNCHANGED <<config, yaml, loadError, reposReq, profileReq, repos, reqUser>>
    /\ UNCHANGED <<pc2, fetches, writes, returned>>

\* Promise.all resolves and mergeWithConfig throws.
GetProjectsThrows ==
    /\ pc = "fetching"
    /\ reposReq = "ok" /\ profileReq = "ok"
    /\ mergeThrows(filterPagesEnabled(repos))
    /\ InitCatch

\* Variant of GetProjectsRejects that treats a failed profile request as
\* harmless once the repositories have arrived.
GetProjectsRejectsReposOnly ==
    /\ pc = "fetching"
    /\ \/ /\ reposReq = "fail"
          /\ InitCatch
       \/ /\ reposReq = "ok" /\ profileReq = "fail"
          /\ ~mergeThrows(filterPagesEnabled(repos))
          /\ grid' = mergeWithConfig(filterPagesEnabled(repos), reqUser)
          /\ header' = getManualProjectsOnly.profile
          /\ outcome' = "primary"
          /\ pc' = "done"
          /\ UNCHANGED <<config, yaml, loadError, reposReq, profileReq, repos, reqUser>>
          /\ UNCHANGED <<pc2, fetches, writes, returned>>

\* Promise.all rejects as soon as one of the requests has failed.
GetProjectsRejects ==
    /\ pc = "fetching"
    /\ reposReq = "fail" \/ profileReq = "fail"
    /\ InitCatch

Next ==
    \/ LoadStart
    \/ LoadFetchRejects
    \/ LoadFetchNotOk
    \/ LoadFetchOk
    \/ LoadParseError
    \/ LoadParsed
    \/ GetProjectsStart
    \/ ReposOk
    \/ ReposFail
    \/ ProfileOk
    \/ ProfileFail
    \/ GetProjectsResolves
    \/ GetProjectsThrows
    \/ GetProjectsRejects

Spec == Init /\ [][Next]_vars

(***************************************************************************)
(* Two callers of Config.load: init, and a second call made from anywhere  *)
(* in the page (App.init and Config.load are both exported), at any time.  *)
(***************************************************************************)
\* init's call finds the configuration the second caller has stored.
LoadCached ==
    /\ pc = "start"
    /\ ~config.isNull
    /\ pc' = "loaded"
    /\ returned' = [returned EXCEPT !.init = config]
    /\ UNCHANGED <<config, yaml, loadError, reposReq, profileReq, repos, reqUser, grid, header, outcome>>
    /\ UNCHANGED <<pc2, fetches, writes>>

\* The second call finds config null, whether or not init's fetch is under
\* way, and fetches projects.yaml itself.
SecondLoadStart ==
    /\ pc2 = "idle"
    /\ config.isNull
    /\ pc2' = "cfgFetch"
    /\ fetches' = fetches + 1
    /\ UNCHANGED <<config, yaml, loadError, pc, reposReq, profileReq, repos, reqUser, grid, header, outcome>>
    /\ UNCHANGED <<writes, returned>>

SecondLoadCached ==
    /\ pc2 = "idle"
    /\ ~config.isNull
    /\ pc2' = "done"
    /\ returned' = [returned EXCEPT !.second = config]
    /\ UNCHANGED <<config, yaml, loadError, pc, reposReq, profileReq, repos, reqUser, grid, header, outcome>>
    /\ UNCHANGED <<fetches, writes>>

SecondLoadCatch(error) ==
    /\ config' = DefaultConfig
    /\ loadError' = error
    /\ pc2' = "done"
    /\ writes' = writes + 1
    /\ returned' = [returned EXCEPT !.second = DefaultConfig]
    /\ UNCHANGED <<yaml, pc, reposReq, profileReq, repos, reqUser, grid, header, outcome>>
    /\ UNCHANGED fetches

\* The second fetch rejects, or its response is not ok.
SecondLoadFetchFails ==
    /\ pc2 = "cfgFetch"
    /\ \E error \in {"Failed to fetch", "Failed to load config: 404"} : SecondLoadCatch(error)

SecondLoadFetchOk ==
    /\ pc2 = "cfgFetch"
    /\ pc2' = "cfgText"
    /\ UNCHANGED <<config, yaml, loadError, pc, reposReq, profileReq, repos, reqUser, grid, header, outcome>>
    /\ UNCHANGED <<fetches, writes, returned>>

SecondLoadParseError ==
    /\ pc2 = "cfgText"
    /\ SecondLoadCatch("YAMLException")

SecondLoadParsed ==
    /\ pc2 = "cfgText"
    /\ \E doc \in Served :
        /\ yaml' = <<doc>>
        /\ config' = IF NormalizeThrows(doc) THEN DefaultConfig ELSE Normalized(doc)
        /\ loadError' = IF NormalizeThrows(doc) THEN "TypeError" ELSE ""
    /\ pc2' = "done"
    /\ writes' = writes + 2
    /\ returned' = [returned EXCEPT !.second = config']
    /\ UNCHANGED <<pc, reposReq, profileReq, repos, reqUser, grid, header, outcome>>
    /\ UNCHANGED fetches

NextTwoCallers ==
    \/ Next
    \/ LoadCached
    \/ SecondLoadStart
    \/ SecondLoadCached
    \/ SecondLoadFetchFails
    \/ SecondLoadFetchOk
    \/ SecondLoadParseError
    \/ SecondLoadParsed

SpecTwoCallers == Init /\ [][NextTwoCallers]_vars

(***************************************************************************)
(* Vocabulary of the properties: the inputs as the specification names     *)
(* them, read from the document and the response, not from the code.       *)
(***************************************************************************)
\* The ManualEntries of the configuration in force, as written in the
\* document (none when load fell back to the defaults).
ManualEntries ==
    IF yaml # <<>> /\ loadError = "" THEN yaml[1].projects.l ELSE <<>>

\* config.excluded and config.order as lists of names.
ExcludedNames == IF config.exclude.t = "array" THEN config.exclude.l ELSE <<>>
OrderNames == IF config.order.t = "array" THEN config.order.l ELSE <<>>

Present(v) == v # Undefined /\ v # Null /\ v # ""

\* Entries that name the repository and carry a url.
RedirectingEntries(repoName) ==
    {k \in 1..Len(ManualEntries) :
        ManualEntries[k].repo = repoName /\ Present(ManualEntries[k].url)}

\* Repositories of the response that survive the auto-discovery filter and
\* the exclusion filter.
SurvivingRepos ==
    {i \in 1..Len(repos) :
        /\ repos[i].has_pages
        /\ \A e \in 1..Len(ExcludedNames) : ExcludedNames[e] # repos[i].name
        /\ RedirectingEntries(repos[i].name) = {}}

EntriesWithUrl == {k \in 1..Len(ManualEntries) : Present(ManualEntries[k].url)}

\* Tiles of a repository: the auto-discovered ones carry its canonical URL,
\* the manual ones come from an entry that names it.
AutoTilesOf(repoName) ==
    {j \in 1..Len(grid) :
        grid[j].isAutoDiscovered /\ grid[j].repoUrl = GithubUrl(reqUser, repoName)}
ManualTilesOf(repoName) ==
    {j \in 1..Len(grid) :
        /\ ~grid[j].isAutoDiscovered
        /\ \E k \in RedirectingEntries(repoName) :
            /\ grid[j].url = ManualEntries[k].url
            /\ grid[j].name = (IF Present(ManualEntries[k].name)
                               THEN ManualEntries[k].name ELSE repoName)}

(***************************************************************************)
(* C1                                                                      *)
(***************************************************************************)
\* C1, as claimed: the primary reconcile returns as many Projects as there
\* are surviving repositories plus ManualEntries, an override-only entry
\* (repoName, no url) being materialized a second time.
C1_CountsEveryManualEntry ==
    outcome = "primary" =>
        Len(grid) = Cardinality(SurvivingRepos) + Len(ManualEntries)

\* C1, amended: the primary reconcile returns as many Projects as there are
\* surviving repositories plus ManualEntries that carry a url; exactly the
\* entries with a url become isAutoDiscovered = false Projects, so an
\* override-only entry is not materialized a second time.
C1_CountsEntriesWithUrl ==
    outcome = "primary" =>
        /\ Len(grid) = Cardinality(SurvivingRepos) + Cardinality(EntriesWithUrl)
        /\ Cardinality({j \in 1..Len(grid) : ~grid[j].isAutoDiscovered})
               = Cardinality(EntriesWithUrl)

\* An override-only entry for a surviving repository a, reconciled.
C1_Witness ==
    /\ outcome = "primary"
    /\ \E k \in 1..Len(ManualEntries) :
        ManualEntries[k].repo = "a" /\ ~Present(ManualEntries[k].url)
    /\ \E i \in SurvivingRepos : repos[i].name = "a"
    /\ AutoTilesOf("a") # {}
    /\ Len(grid) < Cardinality(SurvivingRepos) + Len(ManualEntries)

(***************************************************************************)
(* C2                                                                      *)
(***************************************************************************)
\* C2, as claimed: a repository matched by an entry with repoName and url
\* has no auto-discovered Project and exactly one manual Project, with the
\* url of the entry.
C2_RedirectedExactlyOnce ==
    outcome = "primary" =>
        \A i \in 1..Len(repos) :
            RedirectingEntries(repos[i].name) # {} =>
                /\ AutoTilesOf(repos[i].name) = {}
                /\ Cardinality(ManualTilesOf(repos[i].name)) = 1

\* C2, amended: such a repository has no auto-discovered Project and one
\* manual Project for each entry with that repoName and a url (exactly one
\* when a single entry names it), each with the url of its entry.
C2_RedirectedOncePerEntry ==
    outcome = "primary" =>
        \A i \in 1..Len(repos) :
            RedirectingEntries(repos[i].name) # {} =>
                /\ AutoTilesOf(repos[i].name) = {}
                /\ Cardinality(ManualTilesOf(repos[i].name))
                       = Cardinality(RedirectingEntries(repos[i].name))

\* Repository a has GitHub Pages and one entry redirects it.
C2_Witness ==
    /\ outcome = "primary"
    /\ \E i \in 1..Len(repos) : repos[i].name = "a" /\ repos[i].has_pages
    /\ ~Includes(ExcludedNames, "a")
    /\ Cardinality(RedirectingEntries("a")) = 1
    /\ Cardinality(ManualTilesOf("a")) = 1

(***************************************************************************)
(* C3                                                                      *)
(***************************************************************************)
\* C3, as claimed: every auto-discovered Project comes from a repository
\* with GitHub Pages that is not excluded; a repository without GitHub
\* Pages appears nowhere in the output; an excluded repository has no
\* auto-discovered Project.
C3_NoPagesNeverAppears ==
    outcome = "primary" =>
        /\ \A j \in 1..Len(grid) :
               grid[j].isAutoDiscovered =>
                   \E i \in 1..Len(repos) :
                       /\ repos[i].has_pages
                       /\ ~Includes(ExcludedNames, repos[i].name)
                       /\ grid[j].repoUrl = repos[i].html_url
        /\ \A i \in 1..Len(repos) :
               ~repos[i].has_pages =>
                   AutoTilesOf(repos[i].name) = {} /\ ManualTilesOf(repos[i].name) = {}
        /\ \A i \in 1..Len(repos) :
               Includes(ExcludedNames, repos[i].name) => AutoTilesOf(repos[i].name) = {}

\* C3, amended: every auto-discovered Project comes from a repository with
\* GitHub Pages that is not excluded; a repository without GitHub Pages and
\* an excluded repository have no auto-discovered Project (either can still
\* appear as the manual Project of an entry that names it and has a url).
C3_AutoOnlyFromPagesNotExcluded ==
    outcome = "primary" =>
        /\ \A j \in 1..Len(grid) :
               grid[j].isAutoDiscovered =>
                   \E i \in 1..Len(repos) :
                       /\ repos[i].has_pages
                       /\ ~Includes(ExcludedNames, repos[i].name)
                       /\ grid[j].repoUrl = repos[i].html_url
        /\ \A i \in 1..Len(repos) :
               ~repos[i].has_pages => AutoTilesOf(repos[i].name) = {}
        /\ \A i \in 1..Len(repos) :
               Includes(ExcludedNames, repos[i].name) => AutoTilesOf(repos[i].name) = {}

\* Repository a has GitHub Pages, is excluded and has an override entry;
\* another repository is rendered.
C3_Witness ==
    /\ outcome = "primary"
    /\ Includes(ExcludedNames, "a")
    /\ \E i \in 1..Len(repos) : repos[i].name = "a" /\ repos[i].has_pages
    /\ \E k \in 1..Len(ManualEntries) :
        ManualEntries[k].repo = "a" /\ ~Present(ManualEntries[k].url)
    /\ \E j \in 1..Len(grid) : grid[j].isAutoDiscovered

(***************************************************************************)
(* C4                                                                      *)
(***************************************************************************)
\* Case-insensitive alphabetical order of the names of the model.
LowerCase(x) ==
    CASE x = "B" -> "b"
      [] x = "Untitled" -> "untitled"
      [] OTHER -> x
Alphabet == <<"a", "b", "c", "untitled">>
AlphaBefore(x, y) ==
    IndexOf(Alphabet, LowerCase(x)) <= IndexOf(Alphabet, LowerCase(y))

GridNames == [j \in 1..Len(grid) |-> grid[j].name]

\* C4: the output of the primary reconcile and of the manual-only fallback
\* is sorted: names in config.order come before the others, in the order of
\* their index in config.order; the other names follow in case-insensitive
\* alphabetical order.  With order = [b, a] and auto-discovered a, b, c the
\* output is b, a, c; with an empty order the output is alphabetical.
C4_SortedByOrderThenName ==
    outcome \in {"primary", "fallback"} =>
        /\ \A i, j \in 1..Len(grid) :
               i < j =>
                   LET a == grid[i].name
                       b == grid[j].name
                   IN  /\ Includes(OrderNames, b) => Includes(OrderNames, a)
                       /\ Includes(OrderNames, a) /\ Includes(OrderNames, b)
                              => IndexOf(OrderNames, a) <= IndexOf(OrderNames, b)
                       /\ ~Includes(OrderNames, a) /\ ~Includes(OrderNames, b)
                              => AlphaBefore(a, b)
        /\ (/\ outcome = "primary"
            /\ OrderNames = <<"b", "a">>
            /\ {repos[i].name : i \in SurvivingRepos} = {"a", "b", "c"}
            /\ ManualEntries = <<>>)
           => GridNames = <<"b", "a", "c">>
        /\ OrderNames = <<>> =>
               \A i, j \in 1..Len(grid) :
                   i < j => AlphaBefore(grid[i].name, grid[j].name)

\* order = [b, a] and the repositories a, b, c, reconciled.
C4_Witness ==
    /\ outcome = "primary"
    /\ OrderNames = <<"b", "a">>
    /\ GridNames = <<"b", "a", "c">>
    /\ \A j \in 1..Len(grid) : grid[j].isAutoDiscovered

(***************************************************************************)
(* C5                                                                      *)
(***************************************************************************)
\* Entries with that repoName; the override is the first of them.
EntriesOf(repoName) ==
    {k \in 1..Len(ManualEntries) : ManualEntries[k].repo = repoName}
FirstEntryOf(repoName) ==
    ManualEntries[CHOOSE k \in EntriesOf(repoName) : \A m \in EntriesOf(repoName) : k <= m]

\* C5: a surviving repository with a ManualEntry of its name (the first
\* one, when several have it) yields one auto-discovered Project whose name,
\* description, url and thumbnail are the entry's where the entry sets them
\* and the auto-discovered values otherwise, and whose repoUrl is the
\* canonical URL of the repository.
C5_OverrideFieldByField ==
    outcome = "primary" =>
        \A i \in SurvivingRepos :
            EntriesOf(repos[i].name) # {} =>
                LET e == FirstEntryOf(repos[i].name)
                    r == repos[i]
                IN  /\ Cardinality(AutoTilesOf(r.name)) = 1
                    /\ \A j \in AutoTilesOf(r.name) :
                        /\ grid[j].name = (IF Present(e.name) THEN e.name ELSE r.name)
                        /\ grid[j].description =
                               (IF Present(e.description) THEN e.description
                                ELSE IF Present(r.description) THEN r.description ELSE "")
                        /\ grid[j].url =
                               (IF Present(e.url) THEN e.url
                                ELSE "https://" \o reqUser.s \o ".github.io/" \o r.name \o "/")
                        /\ grid[j].thumbnail =
                               (IF Present(e.thumbnail) THEN e.thumbnail ELSE Null)
                        /\ grid[j].repoUrl = r.html_url

\* The entry {repo: a, description: custom} over repository a, whose own
\* description is orig.
C5_Witness ==
    /\ outcome = "primary"
    /\ \E i \in SurvivingRepos : repos[i].name = "a" /\ repos[i].description = "orig"
    /\ EntriesOf("a") # {}
    /\ FirstEntryOf("a").description = "custom"
    /\ \E j \in AutoTilesOf("a") : grid[j].name = "a" /\ grid[j].description = "custom"

(***************************************************************************)
(* C6, C7, C8                                                              *)
(***************************************************************************)
\* The rules of the specification for a Project materialized from an entry.
ExpectedName(e) ==
    IF Present(e.name) THEN e.name ELSE IF Present(e.repo) THEN e.repo ELSE "Untitled"
ExpectedRepoUrl(e, account) ==
    IF e.repoUrl # Undefined THEN e.repoUrl
    ELSE IF Present(e.repo) THEN "https://github.com/" \o account.s \o "/" \o e.repo
    ELSE Null
ExpectedFallbackUrl(e, account) ==
    IF Present(e.url) THEN e.url
    ELSE IF Present(e.repo) THEN "https://" \o account.s \o ".github.io/" \o e.repo \o "/"
    ELSE "#"

\* C6: in the primary reconcile the Project of a ManualEntry has the
\* entry's repoUrl if the entry declares one (null included), else the
\* link https://github.com/<account>/<repoName> if it has a repoName, else
\* null.
C6_PrimaryRepoUrlRule ==
    outcome = "primary" =>
        \A k \in EntriesWithUrl :
            \E j \in 1..Len(grid) :
                /\ ~grid[j].isAutoDiscovered
                /\ grid[j].name = ExpectedName(ManualEntries[k])
                /\ grid[j].url = ManualEntries[k].url
                /\ grid[j].repoUrl = ExpectedRepoUrl(ManualEntries[k], reqUser)

\* C7: the manual-only fallback applies the same repoUrl rule: declared
\* null stays null, an undeclared repoUrl with a repoName becomes
\* https://github.com/<account>/<repoName>, and null otherwise.
C7_FallbackRepoUrlRule ==
    outcome = "fallback" =>
        \A k \in 1..Len(ManualEntries) :
            \E j \in 1..Len(grid) :
                /\ grid[j].name = ExpectedName(ManualEntries[k])
                /\ grid[j].url = ExpectedFallbackUrl(ManualEntries[k], getUsername)
                /\ grid[j].repoUrl = ExpectedRepoUrl(ManualEntries[k], getUsername)

TileKey(t) == [name |-> t.name, url |-> t.url]
ExpectedFallbackKey(e) ==
    [name |-> ExpectedName(e), url |-> ExpectedFallbackUrl(e, getUsername)]

\* C8: the manual-only fallback returns one isAutoDiscovered = false
\* Project per ManualEntry, with or without url, whatever the repositories;
\* its url is the entry's url, else https://<account>.github.io/<repoName>/
\* when the entry has a repoName, else '#'.
C8_FallbackOnePerEntry ==
    outcome = "fallback" =>
        /\ Len(grid) = Len(ManualEntries)
        /\ \A j \in 1..Len(grid) :
            /\ ~grid[j].isAutoDiscovered
            /\ Cardinality({m \in 1..Len(grid) : TileKey(grid[m]) = TileKey(grid[j])})
                   = Cardinality({k \in 1..Len(ManualEntries) :
                                     ExpectedFallbackKey(ManualEntries[k]) = TileKey(grid[j])})

\* A fallback over an entry with a repoName and no url and an entry with
\* neither, while the repository list had arrived.
C8_Witness ==
    /\ outcome = "fallback"
    /\ reposReq = "ok" /\ Len(repos) > 0
    /\ \E j \in 1..Len(grid) : grid[j].url = "https://alice.github.io/a/"
    /\ \E j \in 1..Len(grid) : grid[j].url = "#"

(***************************************************************************)
(* C9                                                                      *)
(***************************************************************************)
RequestFailed == reposReq = "fail" \/ profileReq = "fail"
FallbackItselfFails == Len(config.projects) >= 2 /\ config.order.t # "array"

\* C9: when the repository-list or the profile request has failed, init
\* ends in the manual-only fallback and renders its result; the terminal
\* message is shown only if the fallback itself fails, nothing is rendered
\* after it, and no auto-discovered Project is ever rendered in a run where
\* a request failed.
C9_FailureFallsBack ==
    /\ RequestFailed =>
           /\ outcome # "primary"
           /\ \A j \in 1..Len(grid) : ~grid[j].isAutoDiscovered
    /\ RequestFailed /\ pc = "done" =>
           /\ outcome \in {"fallback", "failed"}
           /\ outcome = "fallback" <=> ~FallbackItselfFails
           /\ outcome = "fallback" => Len(grid) = Len(config.projects)
    /\ outcome = "failed" =>
           /\ FallbackItselfFails
           /\ pc = "done"
           /\ grid = <<>>

\* The profile request failed after the repositories had arrived, and the
\* manual projects are shown.
C9_Witness ==
    /\ profileReq = "fail"
    /\ reposReq = "ok"
    /\ \E i \in 1..Len(repos) : repos[i].has_pages
    /\ pc = "done"
    /\ outcome = "fallback"
    /\ Len(grid) > 0

(***************************************************************************)
(* C10                                                                     *)
(***************************************************************************)
IllTyped(doc) ==
    \/ doc.username.t \notin {"string", "undefined"}
    \/ doc.exclude.t \notin {"array", "undefined"}
    \/ doc.order.t \notin {"array", "undefined"}
    \/ doc.projects.t \notin {"array", "undefined"}

\* C10: load resolves with the defaults on a fetch failure, a status that
\* is not ok, a parse error or an ill-typed document, and once it has
\* completed getUsername returns a non-empty string and getExcluded,
\* getOrder and getProjects return lists.
C10_LoadAlwaysWellFormed ==
    ~config.isNull =>
        /\ loadError # "" => config = DefaultConfig
        /\ yaml # <<>> /\ IllTyped(yaml[1]) => config = DefaultConfig
        /\ getUsername.t = "string" /\ getUsername.s # ""
        /\ getExcluded.t = "array"
        /\ getOrder.t = "array"

(***************************************************************************)
(* Memoization of Config.load under two callers (SpecTwoCallers).          *)
(***************************************************************************)
\* C11: however the calls of Config.load interleave, projects.yaml is
\* fetched by the first caller only, the memoized configuration is assigned
\* at most once, and a later call resolves with the same configuration as
\* the first.
C11_LoadMemoized ==
    /\ fetches <= 1
    /\ writes <= 1
    /\ (~returned.init.isNull /\ ~returned.second.isNull) =>
           returned.init = returned.second

(***************************************************************************)
(* Order of the steps of one run of init (Spec).                           *)
(***************************************************************************)
\* The account the document names, the default account when it names none
\* or load fell back to the defaults.
LoadedAccount ==
    IF yaml # <<>> /\ loadError = "" /\ yaml[1].username # Absent
    THEN yaml[1].username
    ELSE Str(FallbackUser)

\* C12: no request is issued before the call of load has resolved; the
\* repository-list request and the profile request are issued together, for
\* the account of the loaded configuration; and the merged projects are
\* rendered only when both requests have succeeded.
C12_LoadThenBothRequestsThenMerge ==
    /\ (reposReq = "none") <=> (profileReq = "none")
    /\ reposReq # "none" =>
        /\ ~returned.init.isNull
        /\ config = returned.init
        /\ reqUser = LoadedAccount
    /\ outcome = "primary" => reposReq = "ok" /\ profileReq = "ok"

\* The document names alice, both requests went out for alice and came
\* back, and the merged projects are shown.
C12_Witness ==
    /\ outcome = "primary"
    /\ reqUser = Str("alice")
    /\ returned.init.username = Str("alice")
    /\ reposReq = "ok" /\ profileReq = "ok"
    /\ Len(grid) > 0

(***************************************************************************)
(* The url of every Project (Spec).                                        *)
(***************************************************************************)
\* https://<account>.github.io/<repository name>/
PagesAddress(account, repoName) ==
    "https://" \o account.s \o ".github.io/" \o repoName \o "/"

\* C13: every auto-discovered Project of the primary reconcile has the pages
\* address of its repository as url, whatever the ManualEntries say, and
\* every Project of the primary reconcile or of the manual-only fallback has
\* a url that is neither null nor empty.
C13_AutoUrlDerivedAndUrlPresent ==
    /\ outcome = "primary" =>
        \A j \in 1..Len(grid) :
            grid[j].isAutoDiscovered =>
                \E i \in 1..Len(repos) :
                    /\ grid[j].repoUrl = repos[i].html_url
                    /\ grid[j].url = PagesAddress(reqUser, repos[i].name)
    /\ outcome \in {"primary", "fallback"} =>
        \A j \in 1..Len(grid) : Present(grid[j].url)

\* Repository a has an entry of its name that overrides its description, the
\* tile of a keeps the pages address, and a manual tile is shown next to it.
C13_Witness ==
    /\ outcome = "primary"
    /\ EntriesOf("a") # {}
    /\ \E j \in AutoTilesOf("a") :
        /\ grid[j].description = "custom"
        /\ grid[j].url = "https://alice.github.io/a/"
    /\ \E j \in 1..Len(grid) : ~grid[j].isAutoDiscovered /\ grid[j].url = ExternalUrl

====
